---- MODULE Spec2Model ----
(***************************************************************************)
(* TIGO: the Go binding of the TIGR tiny graphics library (src/tigo.go).   *)
(*                                                                         *)
(* The Go side (src/tigo.go) only marshals: it converts pixels             *)
(* (goPixel/cPixel), converts integers (C.int), reorders arguments and     *)
(* turns native status values into Go errors.  Every drawing call is       *)
(* forwarded to a native function of tigr/tigr.c.  The native functions    *)
(* (tigrGet, tigrPlot and so on, named as the Go code calls them) are      *)
(* written here from what the specification of the pixel surface, its      *)
(* section 4.1, prescribes for them.                                       *)
(*                                                                         *)
(* A behaviour of the model constructs up to two bitmaps (NewBitmap,       *)
(* LoadImage), then makes one drawing or saving call on them; after Plot   *)
(* or Clear it may read pixels back with Get.  `pre` keeps the native heap *)
(* as it was before the last call and `last` the call with its Go-level    *)
(* arguments, so that the effect of a call is a state predicate.           *)
(***************************************************************************)
EXTENDS Integers, Sequences, FiniteSets, TLC

VARIABLES
    heap,       \* the native heap: a sequence of Tigr objects, handle = index
    pre,        \* the native heap before the last call
    last,       \* the last call: its name and its Go-level arguments
    ret         \* what the last call returned to Go

vars == <<heap, pre, last, ret>>

(***************************************************************************)
(* Bounds of the model.                                                    *)
(***************************************************************************)
\* Coordinates passed to the drawing calls range over -1 .. MaxCoord.
MaxCoord == 3
\* Widths and heights passed to Fill and Rect range over -1 .. MaxExtent.
MaxExtent == 3
\* Coordinates passed to the blits range over -1 .. MaxBlitCoord.
MaxBlitCoord == 2
\* Widths and heights passed to the blits range over 1 .. MaxBlitExtent.
MaxBlitExtent == 2
\* The fade factor alpha of BlitAlpha ranges over 0/AlphaSteps .. AlphaSteps/AlphaSteps.
AlphaSteps == 2

Coords == -1 .. MaxCoord
Extents == -1 .. MaxExtent
BlitCoords == -1 .. MaxBlitCoord
BlitExtents == 1 .. MaxBlitExtent
Alphas == 0 .. AlphaSteps

Max(a, b) == IF a >= b THEN a ELSE b
Min(a, b) == IF a <= b THEN a ELSE b

(***************************************************************************)
(* Go values.                                                              *)
(***************************************************************************)
\* The nil unsafe.Pointer / the null Tigr*.
NULL == 0

\* type Pixel struct { B, G, R, A uint8 }
Pixel(b, g, r, a) == [B |-> b, G |-> g, R |-> r, A |-> a]

\* The native TPixel struct { b, g, r, a unsigned char }.
TPixel(b, g, r, a) == [b |-> b, g |-> g, r |-> r, a |-> a]

\* uint8(v) of a C unsigned char.
Uint8(v) == v % 256

\* C.uchar(v) of a Go uint8.
CUchar(v) == v % 256

\* C.int(v) of a Go int.  The conversion keeps every value of the C int range
\* (32 bits), and only such values occur here: integers of the model checker are
\* 32 bits wide, and the arguments are drawn from Coords, Extents and Sizes.
CInt(v) == v

\* C.float(v) of a Go float32: the same 32-bit value.  The model holds alpha as
\* the numerator of a fraction over AlphaSteps.
CFloat(v) == v

\* goPixel converts a TPixel from C into a Pixel from Go.
goPixel(p) == Pixel(Uint8(p.b), Uint8(p.g), Uint8(p.r), Uint8(p.a))

\* A cPixel that crosses the red and blue channels.
cPixelSwapped(p) == TPixel(CUchar(p.R), CUchar(p.G), CUchar(p.B), CUchar(p.A))

\* cPixel converts a Pixel from Go into a TPixel from C.
cPixel(p) == TPixel(CUchar(p.B), CUchar(p.G), CUchar(p.R), CUchar(p.A))

\* RGB is a helper function for making colors.
RGB(r, g, b) == Pixel(b, g, r, 255)

\* RGBA is a helper function for making colors with alpha value.
RGBA(r, g, b, a) == Pixel(b, g, r, a)

\* A *Bitmap: nil, or a pointer to a Bitmap{cBitmap}.
NilBitmap == [isNil |-> TRUE, cBitmap |-> NULL]
BitmapPtr(tigr) == [isNil |-> FALSE, cBitmap |-> tigr]

\* A Go error: nil, or the message of fmt.Errorf.
ErrNil == "nil"
ErrLoad == "failed to load image"
ErrSave == "failed to save image"

(***************************************************************************)
(* The native surface (specification, section 3): width, height and a      *)
(* row-major buffer of width*height pixels, here a function of the         *)
(* coordinate.                                                             *)
(***************************************************************************)
Points(w, h) == (0 .. w - 1) \X (0 .. h - 1)

InBounds(t, x, y) == x >= 0 /\ x < t.w /\ y >= 0 /\ y < t.h

\* create(width, height): a zero-initialized buffer.
tigrBitmap(w, h) ==
    [w |-> w, h |-> h, pix |-> [q \in Points(w, h) |-> TPixel(0, 0, 0, 0)]]

\* Get(x, y) of an in-range coordinate.
tigrGet(t, x, y) == t.pix[<<x, y>>]

\* Plot(x, y, color): writes color if in range, ignores the write otherwise.
tigrPlot(t, x, y, p) ==
    IF InBounds(t, x, y) THEN [t EXCEPT !.pix[<<x, y>>] = p] ELSE t

\* Clear(color): every pixel becomes color.
tigrClear(t, p) == [t EXCEPT !.pix = [q \in DOMAIN t.pix |-> p]]

(***************************************************************************)
(* The files of the image codec (specification, section 6): what decoding  *)
(* each file gives.  A file that does not decode gives the null handle.    *)
(***************************************************************************)
\* A 4x3 image, every pixel opaque and different from every other.
ImageOpaque ==
    [w |-> 4, h |-> 3,
     pix |-> [q \in Points(4, 3) |->
                TPixel(10 + q[1], 20 + q[2], 30 + 4 * q[2] + q[1], 255)]]

\* A 3x3 sprite with transparent, half-transparent and opaque pixels.
ImageSprite ==
    [w |-> 3, h |-> 3,
     pix |-> [q \in Points(3, 3) |->
                TPixel(200 - q[1], 100 + 7 * q[2], 50 + 3 * q[1] + q[2],
                       IF q[1] = q[2] THEN 255 ELSE IF q[1] < q[2] THEN 128 ELSE 0)]]

Files == {"opaque.png", "sprite.png", "broken.png"}

Decodes(f) == f # "broken.png"

Decoded(f) == IF f = "opaque.png" THEN ImageOpaque ELSE ImageSprite

\* The size NewBitmap is called with: smaller than both images.
Sizes == {<<3, 2>>}

\* The colors the drawing calls are given.
Colors == {RGB(255, 0, 0), RGBA(1, 2, 3, 128), RGBA(0, 0, 0, 0)}

Handles == 1 .. Len(heap)

NoCall == [op |-> "none"]

Init ==
    /\ heap = <<>>
    /\ pre = <<>>
    /\ last = NoCall
    /\ ret = [err |-> ErrNil]

\* Construction comes first; at most two bitmaps are constructed.
CanConstruct == last.op \in {"none", "NewBitmap", "LoadImage"} /\ Len(heap) < 2

\* One drawing or saving call is made on the constructed bitmaps.
CanCall == last.op \in {"none", "NewBitmap", "LoadImage"} /\ Len(heap) >= 1

(***************************************************************************)
(* Construction.                                                           *)
(***************************************************************************)
\* func NewBitmap(width, height int) *Bitmap
NewBitmap ==
    /\ CanConstruct
    /\ \E s \in Sizes :
        /\ heap' = Append(heap, tigrBitmap(CInt(s[1]), CInt(s[2])))
        /\ pre' = heap
        /\ last' = [op |-> "NewBitmap", w |-> s[1], h |-> s[2]]
        /\ ret' = [bmp |-> BitmapPtr(Len(heap) + 1), err |-> ErrNil]

\* A LoadImage that wraps whatever handle the decoder gave.
LoadImageUnchecked(tigr) == [bmp |-> BitmapPtr(tigr), err |-> ErrNil]

\* What LoadImage returns for the handle the decoder gave.
LoadImageResult(tigr) ==
    IF tigr = NULL
    THEN [bmp |-> NilBitmap, err |-> ErrLoad]
    ELSE [bmp |-> BitmapPtr(tigr), err |-> ErrNil]

\* func LoadImage(fileName string) (*Bitmap, error)
LoadImage ==
    /\ CanConstruct
    /\ \E f \in Files :
        LET tigr == IF Decodes(f) THEN Len(heap) + 1 ELSE NULL
        IN  /\ heap' = IF Decodes(f) THEN Append(heap, Decoded(f)) ELSE heap
            /\ pre' = heap
            /\ last' = [op |-> "LoadImage", file |-> f, native |-> tigr]
            /\ ret' = LoadImageResult(tigr)

\* What SaveImage returns for the status the encoder gave.
SaveImageResult(result) == IF result = 0 THEN ErrSave ELSE ErrNil

\* func SaveImage(fileName string, bmp *Bitmap) error
\* The encoder only reads the surface; it reports 0 when it could not write.
SaveImage ==
    /\ CanCall
    /\ \E b \in Handles, f \in Files, result \in {0, 1} :
        /\ heap' = heap
        /\ pre' = heap
        /\ last' = [op |-> "SaveImage", bmp |-> BitmapPtr(b), file |-> f,
                    native |-> result]
        /\ ret' = [err |-> SaveImageResult(result)]

(***************************************************************************)
(* Pixels.                                                                 *)
(***************************************************************************)
\* func (bmp *Bitmap) Get(x, y int) Pixel
Bitmap_Get(hp, bmp, x, y) == goPixel(tigrGet(hp[bmp.cBitmap], CInt(x), CInt(y)))

\* func (bmp *Bitmap) Plot(x, y int, p Pixel)
Bitmap_Plot(hp, bmp, x, y, p) ==
    [hp EXCEPT ![bmp.cBitmap] = tigrPlot(@, CInt(x), CInt(y), cPixel(p))]

\* func (bmp *Bitmap) Clear(color Pixel)
Bitmap_Clear(hp, bmp, color) ==
    [hp EXCEPT ![bmp.cBitmap] = tigrClear(@, cPixel(color))]

Plot ==
    /\ CanCall
    /\ \E b \in Handles, x \in Coords, y \in Coords, c \in Colors :
        /\ heap' = Bitmap_Plot(heap, BitmapPtr(b), x, y, c)
        /\ pre' = heap
        /\ last' = [op |-> "Plot", bmp |-> BitmapPtr(b), x |-> x, y |-> y, c |-> c]
        /\ ret' = [err |-> ErrNil]

Clear ==
    /\ CanCall
    /\ \E b \in Handles, c \in Colors :
        /\ heap' = Bitmap_Clear(heap, BitmapPtr(b), c)
        /\ pre' = heap
        /\ last' = [op |-> "Clear", bmp |-> BitmapPtr(b), c |-> c]
        /\ ret' = [err |-> ErrNil]

\* Get reads a pixel back after Plot or Clear; that call stays the last call.
\* Only in-range coordinates are read (out of range the native result is
\* undefined).
Get ==
    /\ last.op \in {"Plot", "Clear"}
    /\ \E b \in Handles, x \in Coords, y \in Coords :
        /\ InBounds(heap[b], x, y)
        /\ ret' = [got |-> Bitmap_Get(heap, BitmapPtr(b), x, y),
                   bmp |-> BitmapPtr(b), x |-> x, y |-> y]
    /\ UNCHANGED <<heap, pre, last>>

(***************************************************************************)
(* Shapes.                                                                 *)
(***************************************************************************)
\* Fill(x, y, w, h, color): the half-open rectangle [x, x+w) x [y, y+h) is
\* clipped to the surface, then every pixel of the clipped rectangle is set.
tigrFill(t, x, y, w, h, p) ==
    LET x0 == Max(x, 0)
        y0 == Max(y, 0)
        x1 == Min(x + w, t.w)
        y1 == Min(y + h, t.h)
    IN  [t EXCEPT !.pix =
            [q \in DOMAIN t.pix |->
                IF q[1] >= x0 /\ q[1] < x1 /\ q[2] >= y0 /\ q[2] < y1
                THEN p ELSE t.pix[q]]]

\* Rect(x, y, w, h, color): the top, bottom, left and right edges of the same
\* rectangle, each clipped like Fill; nothing when w <= 0 or h <= 0.
tigrRect(t, x, y, w, h, p) ==
    IF w <= 0 \/ h <= 0 THEN t
    ELSE LET top == tigrFill(t, x, y, w, 1, p)
             bottom == tigrFill(top, x, y + h - 1, w, 1, p)
             left == tigrFill(bottom, x, y, 1, h, p)
         IN  tigrFill(left, x + w - 1, y, 1, h, p)

Abs(v) == IF v < 0 THEN -v ELSE v

\* The loop of the integer (Bresenham) line: plot the current point, which is
\* skipped when outside the surface, stop after the end point, else step.
RECURSIVE LineLoop(_, _, _, _, _, _, _, _)
LineLoop(t, x, y, x1, y1, err, n, p) ==
    LET dx == n[1]
        dy == n[2]
        sx == n[3]
        sy == n[4]
        plotted == tigrPlot(t, x, y, p)
        e2 == 2 * err
        stepX == e2 > -dy
        stepY == e2 < dx
    IN  IF x = x1 /\ y = y1 THEN plotted
        ELSE LineLoop(plotted,
                      IF stepX THEN x + sx ELSE x,
                      IF stepY THEN y + sy ELSE y,
                      x1, y1,
                      err - (IF stepX THEN dy ELSE 0) + (IF stepY THEN dx ELSE 0),
                      n, p)

\* Line(x0, y0, x1, y1, color): both end points included.
tigrLine(t, x0, y0, x1, y1, p) ==
    LET dx == Abs(x1 - x0)
        dy == Abs(y1 - y0)
        sx == IF x0 < x1 THEN 1 ELSE -1
        sy == IF y0 < y1 THEN 1 ELSE -1
    IN  LineLoop(t, x0, y0, x1, y1, dx - dy, <<dx, dy, sx, sy>>, p)

\* A Fill that passes the height for the width and the width for the height.
Bitmap_FillSwapped(hp, bmp, x, y, w, h, color) ==
    [hp EXCEPT ![bmp.cBitmap] =
        tigrFill(@, CInt(x), CInt(y), CInt(h), CInt(w), cPixel(color))]

\* func (bmp *Bitmap) Fill(x, y, w, h int, color Pixel)
Bitmap_Fill(hp, bmp, x, y, w, h, color) ==
    [hp EXCEPT ![bmp.cBitmap] =
        tigrFill(@, CInt(x), CInt(y), CInt(w), CInt(h), cPixel(color))]

\* A Rect that passes the height for the width and the width for the height.
Bitmap_RectSwapped(hp, bmp, x, y, w, h, color) ==
    [hp EXCEPT ![bmp.cBitmap] =
        tigrRect(@, CInt(x), CInt(y), CInt(h), CInt(w), cPixel(color))]

\* func (bmp *Bitmap) Rect(x, y, w, h int, color Pixel)
Bitmap_Rect(hp, bmp, x, y, w, h, color) ==
    [hp EXCEPT ![bmp.cBitmap] =
        tigrRect(@, CInt(x), CInt(y), CInt(w), CInt(h), cPixel(color))]

\* A Line that passes the end point as (y1, x1).
Bitmap_LineSwapped(hp, bmp, x0, y0, x1, y1, color) ==
    [hp EXCEPT ![bmp.cBitmap] =
        tigrLine(@, CInt(x0), CInt(y0), CInt(y1), CInt(x1), cPixel(color))]

\* func (bmp *Bitmap) Line(x0, y0, x1, y1 int, color Pixel)
Bitmap_Line(hp, bmp, x0, y0, x1, y1, color) ==
    [hp EXCEPT ![bmp.cBitmap] =
        tigrLine(@, CInt(x0), CInt(y0), CInt(x1), CInt(y1), cPixel(color))]

Fill ==
    /\ CanCall
    /\ \E b \in Handles, x \in Coords, y \in Coords, w \in Extents, h \in Extents,
          c \in Colors :
        /\ heap' = Bitmap_Fill(heap, BitmapPtr(b), x, y, w, h, c)
        /\ pre' = heap
        /\ last' = [op |-> "Fill", bmp |-> BitmapPtr(b), x |-> x, y |-> y,
                    w |-> w, h |-> h, c |-> c]
        /\ ret' = [err |-> ErrNil]

Rect ==
    /\ CanCall
    /\ \E b \in Handles, x \in Coords, y \in Coords, w \in Extents, h \in Extents,
          c \in Colors :
        /\ heap' = Bitmap_Rect(heap, BitmapPtr(b), x, y, w, h, c)
        /\ pre' = heap
        /\ last' = [op |-> "Rect", bmp |-> BitmapPtr(b), x |-> x, y |-> y,
                    w |-> w, h |-> h, c |-> c]
        /\ ret' = [err |-> ErrNil]

Line ==
    /\ CanCall
    /\ \E b \in Handles, x0 \in Coords, y0 \in Coords, x1 \in Coords, y1 \in Coords,
          c \in Colors :
        /\ heap' = Bitmap_Line(heap, BitmapPtr(b), x0, y0, x1, y1, c)
        /\ pre' = heap
        /\ last' = [op |-> "Line", bmp |-> BitmapPtr(b), x0 |-> x0, y0 |-> y0,
                    x1 |-> x1, y1 |-> y1, c |-> c]
        /\ ret' = [err |-> ErrNil]


(***************************************************************************)
(* Blits.  The source and the destination rectangle are clipped against    *)
(* their own surfaces; the copied region is the set of offsets (i, j) of   *)
(* the rectangle whose source and destination pixel are both in bounds.    *)
(***************************************************************************)
ClipFrom(sx, dx) == Max(0, Max(-sx, -dx))

ClipTo(n, sx, sn, dx, dn) == Min(n, Min(sn - sx, dn - dx))

\* The offsets copied by a blit of w x h from (sx, sy) of s to (dx, dy) of d.
Region(d, s, dx, dy, sx, sy, w, h) ==
    (ClipFrom(sx, dx) .. ClipTo(w, sx, s.w, dx, d.w) - 1)
        \X (ClipFrom(sy, dy) .. ClipTo(h, sy, s.h, dy, d.h) - 1)

\* The intermediate buffer: the source pixels of the copied region.
ReadRegion(s, sx, sy, region) ==
    [o \in region |-> s.pix[<<sx + o[1], sy + o[2]>>]]

\* The destination with the pixels of out written at the points of the region.
WriteRegion(d, dx, dy, out) ==
    [d EXCEPT !.pix =
        [q \in DOMAIN d.pix |->
            IF <<q[1] - dx, q[2] - dy>> \in DOMAIN out
            THEN out[<<q[1] - dx, q[2] - dy>>]
            ELSE d.pix[q]]]

\* Blit: an opaque overwrite, copied through the intermediate buffer, so that a
\* blit of a surface onto itself reads no pixel it has already written.
tigrBlit(hp, dest, src, dx, dy, sx, sy, w, h) ==
    LET d == hp[dest]
        s == hp[src]
        buf == ReadRegion(s, sx, sy, Region(d, s, dx, dy, sx, sy, w, h))
    IN  WriteRegion(d, dx, dy, buf)

\* The native library's rounding of a quotient: the specification leaves it to
\* the implementation, which uses one of the two everywhere.
Roundings == {"floor", "nearest"}

Round(num, den, round) ==
    IF round = "floor" THEN num \div den ELSE (2 * num + den) \div (2 * den)

\* dst*(1 - a') + src*a' for a' = num/den, on every channel, alpha included.
BlendPixel(old, new, num, den, round) ==
    [b |-> Round(old.b * (den - num) + new.b * num, den, round),
     g |-> Round(old.g * (den - num) + new.g * num, den, round),
     r |-> Round(old.r * (den - num) + new.r * num, den, round),
     a |-> Round(old.a * (den - num) + new.a * num, den, round)]

\* BlitAlpha: the region of Blit, blended with a' = (src.A / 255) * alpha.
tigrBlitAlpha(hp, round, dest, src, dx, dy, sx, sy, w, h, alpha) ==
    LET d == hp[dest]
        s == hp[src]
        buf == ReadRegion(s, sx, sy, Region(d, s, dx, dy, sx, sy, w, h))
        out == [o \in DOMAIN buf |->
                    BlendPixel(d.pix[<<dx + o[1], dy + o[2]>>], buf[o],
                               buf[o].a * alpha, 255 * AlphaSteps, round)]
    IN  WriteRegion(d, dx, dy, out)

\* The source pixel with every channel multiplied by the tint's channel / 255.
TintPixel(p, tint, round) ==
    [b |-> Round(p.b * tint.b, 255, round),
     g |-> Round(p.g * tint.g, 255, round),
     r |-> Round(p.r * tint.r, 255, round),
     a |-> Round(p.a * tint.a, 255, round)]

\* BlitTint: the region of Blit; the tinted source pixel is blended with its own
\* (tinted) alpha / 255 as a', without a fade factor.
tigrBlitTint(hp, round, dest, src, dx, dy, sx, sy, w, h, tint) ==
    LET d == hp[dest]
        s == hp[src]
        buf == ReadRegion(s, sx, sy, Region(d, s, dx, dy, sx, sy, w, h))
        out == [o \in DOMAIN buf |->
                    LET tinted == TintPixel(buf[o], tint, round)
                    IN  BlendPixel(d.pix[<<dx + o[1], dy + o[2]>>], tinted,
                                   tinted.a, 255, round)]
    IN  WriteRegion(d, dx, dy, out)

\* A Blit that passes the source coordinates where the native call takes the
\* destination coordinates, in the order of its own parameters.
Bitmap_BlitSwapped(hp, bmp, sx, sy, dest, dx, dy, w, h) ==
    [hp EXCEPT ![dest.cBitmap] =
        tigrBlit(hp, dest.cBitmap, bmp.cBitmap,
                 CInt(sx), CInt(sy), CInt(dx), CInt(dy), CInt(w), CInt(h))]

\* func (bmp *Bitmap) Blit(sx, sy int, dest *Bitmap, dx, dy, w, h int)
Bitmap_Blit(hp, bmp, sx, sy, dest, dx, dy, w, h) ==
    [hp EXCEPT ![dest.cBitmap] =
        tigrBlit(hp, dest.cBitmap, bmp.cBitmap,
                 CInt(dx), CInt(dy), CInt(sx), CInt(sy), CInt(w), CInt(h))]

\* A BlitAlpha that passes the source coordinates first.
Bitmap_BlitAlphaSwapped(hp, round, bmp, sx, sy, dest, dx, dy, w, h, alpha) ==
    [hp EXCEPT ![dest.cBitmap] =
        tigrBlitAlpha(hp, round, dest.cBitmap, bmp.cBitmap,
                      CInt(sx), CInt(sy), CInt(dx), CInt(dy), CInt(w), CInt(h),
                      CFloat(alpha))]

\* func (bmp *Bitmap) BlitAlpha(sx, sy int, dest *Bitmap, dx, dy, w, h int, alpha float32)
Bitmap_BlitAlpha(hp, round, bmp, sx, sy, dest, dx, dy, w, h, alpha) ==
    [hp EXCEPT ![dest.cBitmap] =
        tigrBlitAlpha(hp, round, dest.cBitmap, bmp.cBitmap,
                      CInt(dx), CInt(dy), CInt(sx), CInt(sy), CInt(w), CInt(h),
                      CFloat(alpha))]

\* A BlitTint that passes the source coordinates first.
Bitmap_BlitTintSwapped(hp, round, bmp, sx, sy, dest, dx, dy, w, h, tint) ==
    [hp EXCEPT ![dest.cBitmap] =
        tigrBlitTint(hp, round, dest.cBitmap, bmp.cBitmap,
                     CInt(sx), CInt(sy), CInt(dx), CInt(dy), CInt(w), CInt(h),
                     cPixel(tint))]

\* func (bmp *Bitmap) BlitTint(sx, sy int, dest *Bitmap, dx, dy, w, h int, tint Pixel)
Bitmap_BlitTint(hp, round, bmp, sx, sy, dest, dx, dy, w, h, tint) ==
    [hp EXCEPT ![dest.cBitmap] =
        tigrBlitTint(hp, round, dest.cBitmap, bmp.cBitmap,
                     CInt(dx), CInt(dy), CInt(sx), CInt(sy), CInt(w), CInt(h),
                     cPixel(tint))]

\* The tints BlitTint is given.
Tints == {RGBA(255, 255, 255, 255), RGBA(255, 128, 0, 128)}

Blit ==
    /\ CanCall
    /\ \E b \in Handles, d \in Handles, sx \in BlitCoords, sy \in BlitCoords,
          dx \in BlitCoords, dy \in BlitCoords, w \in BlitExtents, h \in BlitExtents :
        /\ heap' = Bitmap_Blit(heap, BitmapPtr(b), sx, sy, BitmapPtr(d), dx, dy, w, h)
        /\ pre' = heap
        /\ last' = [op |-> "Blit", bmp |-> BitmapPtr(b), dest |-> BitmapPtr(d),
                    sx |-> sx, sy |-> sy, dx |-> dx, dy |-> dy, w |-> w, h |-> h]
        /\ ret' = [err |-> ErrNil]

BlitAlpha ==
    /\ CanCall
    /\ \E b \in Handles, d \in Handles, sx \in BlitCoords, sy \in BlitCoords,
          dx \in BlitCoords, dy \in BlitCoords, w \in BlitExtents, h \in BlitExtents,
          alpha \in Alphas, round \in Roundings :
        /\ heap' = Bitmap_BlitAlpha(heap, round, BitmapPtr(b), sx, sy, BitmapPtr(d),
                                    dx, dy, w, h, alpha)
        /\ pre' = heap
        /\ last' = [op |-> "BlitAlpha", bmp |-> BitmapPtr(b), dest |-> BitmapPtr(d),
                    sx |-> sx, sy |-> sy, dx |-> dx, dy |-> dy, w |-> w, h |-> h,
                    alpha |-> alpha, round |-> round]
        /\ ret' = [err |-> ErrNil]

BlitTint ==
    /\ CanCall
    /\ \E b \in Handles, d \in Handles, sx \in BlitCoords, sy \in BlitCoords,
          dx \in BlitCoords, dy \in BlitCoords, w \in BlitExtents, h \in BlitExtents,
          tint \in Tints, round \in Roundings :
        /\ heap' = Bitmap_BlitTint(heap, round, BitmapPtr(b), sx, sy, BitmapPtr(d),
                                   dx, dy, w, h, tint)
        /\ pre' = heap
        /\ last' = [op |-> "BlitTint", bmp |-> BitmapPtr(b), dest |-> BitmapPtr(d),
                    sx |-> sx, sy |-> sy, dx |-> dx, dy |-> dy, w |-> w, h |-> h,
                    tint |-> tint, round |-> round]
        /\ ret' = [err |-> ErrNil]

(***************************************************************************)
(* Observations used by the properties.  Pixels are observed as Go sees    *)
(* them, through Get.                                                      *)
(***************************************************************************)
\* The Go pixel at point q of bitmap handle b in heap hp.
PixelAt(hp, b, q) == Bitmap_Get(hp, BitmapPtr(b), q[1], q[2])

\* The call did not allocate, free or resize a surface, and changed the
\* pixels of no surface but the target's.
OnlyTargetTouched(target) ==
    /\ Len(heap) = Len(pre)
    /\ \A k \in 1 .. Len(pre) :
        /\ heap[k].w = pre[k].w
        /\ heap[k].h = pre[k].h
        /\ DOMAIN heap[k].pix = DOMAIN pre[k].pix
        /\ k # target => heap[k] = pre[k]

\* The rectangle [x, x+w) x [y, y+h) lies inside surface t.
RectInside(t, x, y, w, h) == x >= 0 /\ y >= 0 /\ x + w <= t.w /\ y + h <= t.h

\* Point q lies in the rectangle [x, x+w) x [y, y+h).
InRect(q, x, y, w, h) == q[1] >= x /\ q[1] < x + w /\ q[2] >= y /\ q[2] < y + h

\* Two w x h rectangles at (ax, ay) and (bx, by) share a point.
RectsOverlap(ax, ay, bx, by, w, h) ==
    ax < bx + w /\ bx < ax + w /\ ay < by + h /\ by < ay + h

\* The source point a blit copies to destination point q.
SourceOf(q) == <<q[1] - last.dx + last.sx, q[2] - last.dy + last.sy>>

\* Destination point q of the last blit is in the destination rectangle and
\* its source point is on the source surface.
Copied(q) ==
    /\ InRect(q, last.dx, last.dy, last.w, last.h)
    /\ InBounds(pre[last.bmp.cBitmap], SourceOf(q)[1], SourceOf(q)[2])

\* The last blit left at every point of the destination the pixel the source
\* had before the call, where one was copied, and the old pixel elsewhere.
CopiedFromBefore ==
    LET s == last.bmp.cBitmap
        d == last.dest.cBitmap
    IN  \A q \in DOMAIN pre[d].pix :
            PixelAt(heap, d, q) =
                IF Copied(q) THEN PixelAt(pre, s, SourceOf(q)) ELSE PixelAt(pre, d, q)

(***************************************************************************)
(* C1.  Blit with both rectangles fully in bounds and not overlapping:     *)
(* every destination pixel (dx+i, dy+j), 0 <= i < w, 0 <= j < h, equals    *)
(* the source pixel (sx+i, sy+j) in all four channels, every other         *)
(* destination pixel is unchanged, and the source surface is unchanged.    *)
(***************************************************************************)
C1_Case ==
    /\ last.op = "Blit"
    /\ RectInside(pre[last.bmp.cBitmap], last.sx, last.sy, last.w, last.h)
    /\ RectInside(pre[last.dest.cBitmap], last.dx, last.dy, last.w, last.h)
    /\ last.bmp = last.dest =>
        ~RectsOverlap(last.sx, last.sy, last.dx, last.dy, last.w, last.h)

\* C1: after an in-bounds, non-overlapping Blit the destination rectangle equals
\* the source rectangle channel by channel, every other destination pixel and
\* the source surface are unchanged.
C1_BlitCopiesRectangle ==
    C1_Case =>
        LET s == last.bmp.cBitmap
            d == last.dest.cBitmap
        IN  /\ \A i \in 0 .. last.w - 1, j \in 0 .. last.h - 1 :
                LET got == PixelAt(heap, d, <<last.dx + i, last.dy + j>>)
                    src == PixelAt(pre, s, <<last.sx + i, last.sy + j>>)
                IN  got.R = src.R /\ got.G = src.G /\ got.B = src.B /\ got.A = src.A
            /\ \A q \in DOMAIN pre[d].pix :
                ~InRect(q, last.dx, last.dy, last.w, last.h)
                    => PixelAt(heap, d, q) = PixelAt(pre, d, q)
            /\ \A q \in DOMAIN pre[s].pix :
                InRect(q, last.sx, last.sy, last.w, last.h)
                    => PixelAt(heap, s, q) = PixelAt(pre, s, q)
            /\ s # d => heap[s] = pre[s]
            /\ OnlyTargetTouched(d)

\* A 2x2 blit between two bitmaps, in bounds, that changed the destination.
C1_Witness ==
    /\ C1_Case
    /\ last.bmp # last.dest
    /\ last.w = 2 /\ last.h = 2
    /\ \A i \in 0 .. 1, j \in 0 .. 1 :
        heap[last.dest.cBitmap].pix[<<last.dx + i, last.dy + j>>]
            # pre[last.dest.cBitmap].pix[<<last.dx + i, last.dy + j>>]

(***************************************************************************)
(* C2.  Blit with a source rectangle partly outside the source surface     *)
(* copies only the offsets whose source and destination pixel are both in  *)
(* bounds: a destination pixel whose source coordinate is out of range is  *)
(* not written, and every destination pixel outside the copied             *)
(* sub-rectangle keeps its previous value.                                 *)
(***************************************************************************)
C2_Case ==
    /\ last.op = "Blit"
    /\ ~RectInside(pre[last.bmp.cBitmap], last.sx, last.sy, last.w, last.h)

C3_Case ==
    /\ last.op = "Blit"
    /\ last.bmp = last.dest
    /\ RectsOverlap(last.sx, last.sy, last.dx, last.dy, last.w, last.h)

\* The surface t after copying through a temporary buffer: the buffer holds the
\* pixels t had in the source rectangle, and is then written at (dx, dy).
ViaTemporary(t, sx, sy, dx, dy, w, h) ==
    LET inside == {o \in (0 .. w - 1) \X (0 .. h - 1) :
                      /\ InBounds(t, sx + o[1], sy + o[2])
                      /\ InBounds(t, dx + o[1], dy + o[2])}
        tmp == [o \in inside |-> t.pix[<<sx + o[1], sy + o[2]>>]]
    IN  [q \in DOMAIN t.pix |->
            IF <<q[1] - dx, q[2] - dy>> \in inside
            THEN tmp[<<q[1] - dx, q[2] - dy>>]
            ELSE t.pix[q]]

C5_ReadBack ==
    /\ last.op = "Plot"
    /\ "got" \in DOMAIN ret
    /\ ret.bmp = last.bmp
    /\ ret.x = last.x
    /\ ret.y = last.y

\* C5: Get after Plot at an in-range point returns the plotted color in all four
\* channels, goPixel inverts cPixel, and Plot changes no other pixel.
C5_PlotThenGet ==
    /\ C5_ReadBack =>
        /\ ret.got.R = last.c.R
        /\ ret.got.G = last.c.G
        /\ ret.got.B = last.c.B
        /\ ret.got.A = last.c.A
    /\ \A c \in Colors \cup {RGBA(r, 7, b, a) : r, b, a \in {0, 128, 255}} :
        goPixel(cPixel(c)) = c
    /\ last.op = "Plot" =>
        LET b == last.bmp.cBitmap
        IN  /\ InBounds(pre[b], last.x, last.y)
                => PixelAt(heap, b, <<last.x, last.y>>) = last.c
            /\ \A q \in DOMAIN pre[b].pix :
                q # <<last.x, last.y>> => PixelAt(heap, b, q) = PixelAt(pre, b, q)
            /\ OnlyTargetTouched(b)

\* A half-transparent color with three different color channels was plotted
\* over a different pixel and read back.
C5_Witness ==
    /\ C5_ReadBack
    /\ last.c.A = 128
    /\ last.c.R # last.c.B
    /\ pre[last.bmp.cBitmap].pix[<<last.x, last.y>>] # cPixel(last.c)
    /\ pre[last.bmp.cBitmap].pix[<<last.x, last.y>>].a = 255

(***************************************************************************)
(* C6.  BlitAlpha at the two ends of the fade range.  With alpha = 0 every *)
(* destination pixel is unchanged whatever the source pixels are.  With    *)
(* alpha = 1 and every source pixel of the rectangle fully opaque          *)
(* (A = 255) the destination rectangle becomes an exact copy of the source *)
(* rectangle, identical to the result of Blit with the same arguments.     *)
(***************************************************************************)
\* Every pixel the source surface has in the source rectangle is opaque.
SourceOpaque ==
    \A q \in DOMAIN pre[last.bmp.cBitmap].pix :
        InRect(q, last.sx, last.sy, last.w, last.h)
            => PixelAt(pre, last.bmp.cBitmap, q).A = 255

C6_FullAlphaCase ==
    /\ last.op = "BlitAlpha"
    /\ last.alpha = AlphaSteps
    /\ SourceOpaque

C7_Case ==
    /\ last.op = "BlitTint"
    /\ last.tint = RGBA(255, 255, 255, 255)

\* C7: BlitTint with the tint RGBA(255, 255, 255, 255) gives what BlitAlpha with
\* alpha = 1 and the same arguments gives.
C7_WhiteTintIsBlitAlpha ==
    C7_Case =>
        heap = Bitmap_BlitAlpha(pre, last.round, last.bmp, last.sx, last.sy,
                                last.dest, last.dx, last.dy, last.w, last.h,
                                AlphaSteps)

\* A white-tinted blit blended a half-transparent source pixel into an opaque
\* destination pixel: the result is neither the old pixel nor the source pixel.
C7_Witness ==
    /\ C7_Case
    /\ \E q \in DOMAIN pre[last.dest.cBitmap].pix :
        /\ Copied(q)
        /\ pre[last.bmp.cBitmap].pix[SourceOf(q)].a = 128
        /\ pre[last.dest.cBitmap].pix[q].a = 255
        /\ heap[last.dest.cBitmap].pix[q] # pre[last.dest.cBitmap].pix[q]
        /\ heap[last.dest.cBitmap].pix[q] # pre[last.bmp.cBitmap].pix[SourceOf(q)]

(***************************************************************************)
(* C8.  Line(x0, y0, x1, y1, c) sets to c exactly the in-bounds pixels of  *)
(* the standard Bresenham line from (x0, y0) to (x1, y1), both end points  *)
(* included, and changes no other pixel; points of the line outside the    *)
(* surface are skipped without stopping the line.  The line from (0, 0) to *)
(* (3, 0) sets exactly (0, 0), (1, 0), (2, 0), (3, 0).                     *)
(***************************************************************************)
\* The Bresenham line in closed form: one point per step k along the major
\* axis; the minor offset is k * minor / major rounded to the nearest integer,
\* a half rounded towards the start point.
BresenhamPoints(x0, y0, x1, y1) ==
    LET dx == Abs(x1 - x0)
        dy == Abs(y1 - y0)
        sx == IF x0 < x1 THEN 1 ELSE -1
        sy == IF y0 < y1 THEN 1 ELSE -1
    IN  IF dx = 0 /\ dy = 0 THEN {<<x0, y0>>}
        ELSE IF dx >= dy
        THEN {<<x0 + sx * k, y0 + sy * ((2 * k * dy + dx - 1) \div (2 * dx))>> :
                k \in 0 .. dx}
        ELSE {<<x0 + sx * ((2 * k * dx + dy - 1) \div (2 * dy)), y0 + sy * k>> :
                k \in 0 .. dy}

OnOutline(q, x, y, w, h) ==
    /\ InRect(q, x, y, w, h)
    /\ (q[1] = x \/ q[1] = x + w - 1 \/ q[2] = y \/ q[2] = y + h - 1)

C10_ImageIOErrors ==
    /\ last.op = "LoadImage" =>
        /\ last.native = NULL <=> (ret.bmp = NilBitmap /\ ret.err # ErrNil)
        /\ last.native # NULL <=>
            (~ret.bmp.isNil /\ ret.bmp.cBitmap = last.native /\ ret.err = ErrNil)
        /\ ret.bmp.isNil <=> ret.err # ErrNil
        /\ ~ret.bmp.isNil => ret.bmp.cBitmap \in 1 .. Len(heap)
    /\ last.op = "SaveImage" =>
        /\ last.native = 0 <=> ret.err # ErrNil
        /\ last.native # 0 <=> ret.err = ErrNil
        /\ heap = pre

\* LoadImage of a file that does not decode, after a bitmap was constructed.
C10_Witness ==
    /\ last.op = "LoadImage"
    /\ last.native = NULL
    /\ ret.bmp = NilBitmap
    /\ ret.err = ErrLoad
    /\ Len(heap) = 1

(***************************************************************************)
(* Specifications: the whole interface, and one per family of calls.       *)
(***************************************************************************)
Next == NewBitmap \/ LoadImage \/ SaveImage \/ Plot \/ Clear \/ Get
        \/ Fill \/ Rect \/ Line \/ Blit \/ BlitAlpha \/ BlitTint

Spec == Init /\ [][Next]_vars

NextIO == NewBitmap \/ LoadImage \/ SaveImage

SpecIO == Init /\ [][NextIO]_vars

NextPixel == NewBitmap \/ LoadImage \/ Plot \/ Clear \/ Get

SpecPixel == Init /\ [][NextPixel]_vars

NextShape == NewBitmap \/ LoadImage \/ Fill \/ Rect \/ Line

SpecShape == Init /\ [][NextShape]_vars

NextBlit == NewBitmap \/ LoadImage \/ Blit

SpecBlit == Init /\ [][NextBlit]_vars

NextAlpha == NewBitmap \/ LoadImage \/ BlitAlpha

SpecAlpha == Init /\ [][NextAlpha]_vars

NextTint == NewBitmap \/ LoadImage \/ BlitTint

SpecTint == Init /\ [][NextTint]_vars
====
